---- MODULE Spec2Model ----
(***************************************************************************)
(* A model of the Azul rules engine (src/src/games/azul.rs) and of the     *)
(* game loop that drives it (src/src/main.rs, simulate).                   *)
(*                                                                         *)
(* Vectors and arrays keep the source's 0-based indices: a Vec or array of *)
(* length n is a function with domain 0..n-1.  An Option<Tile> is a tile   *)
(* name or the string "None"; an Option<usize> pattern line is a row index *)
(* or NoLine.  A (Option<Tile>, usize) pattern line is a record with the   *)
(* fields color and count.                                                 *)
(***************************************************************************)
EXTENDS Integers, Sequences, FiniteSets, TLC

VARIABLES
    state,           \* the State of the game in progress
    pc,              \* position of the game loop
    current_player,  \* seat that acts next
    ply_id,          \* number of plies made so far
    rewards,         \* play_mcts: the rewards of the actions to choose from
    rewards_d,       \* play_mcts: the weights of the actions
    action_log,      \* play_mcts: scores, wins and trials of each action
    games_done,      \* play_mcts: simulated games finished
    action_idx,      \* play_mcts: the first action of the simulated game
    arg_array,       \* count_continuous: the argument array
    arg_anchor,      \* count_continuous: the argument anchor
    play_log,        \* simulate: the records pushed to the shared log
    mutex,           \* simulate: the game that holds the lock of the log
    threads,         \* simulate: the games running in parallel
    ret              \* value returned by the call (the winner's seat)

\* the locals of play_mcts
search == <<rewards, rewards_d, action_log, games_done, action_idx>>

\* the arguments of count_continuous
counting == <<arg_array, arg_anchor>>

\* the shared log of simulate and the games that push to it
logging == <<play_log, mutex, threads>>

vars ==
    <<state, pc, current_player, ply_id, search, counting, logging, ret>>

\* play_mcts is not running
NoSearch ==
    /\ rewards = <<>>
    /\ rewards_d = <<>>
    /\ action_log = <<>>
    /\ games_done = 0
    /\ action_idx = 0

\* count_continuous is not running
NoCounting ==
    /\ arg_array = <<>>
    /\ arg_anchor = 0

\* the value of mutex when no game holds the lock
Unlocked == 0 - 1

\* no game runs in parallel with the one modelled
NoLogging ==
    /\ play_log = <<>>
    /\ mutex = Unlocked
    /\ threads = <<>>

----------------------------------------------------------------------------
(* Bounds of the model *)

\* refill_tiles draws only among the first NDrawColors entries of COLORS
NDrawColors == 2
\* the game loop starts at most MaxRounds rounds
MaxRounds == 2
\* the game loop makes at most MaxPly plies
MaxPly == 2
\* a finished game has 2..MaxSeats seats
MaxSeats == 3
\* the scores of the seats of a finished game are in 0..MaxScore
MaxScore == 4
\* the games simulate runs in parallel are n_sims
n_sims == 2
\* the actions a simulated game of play_mcts takes are at most MaxRolloutPly
MaxRolloutPly == 2

\* the colours drawn in the rounds that follow the starting marker
NMarkerColors == 3
\* the simulated games of one play_mcts (200 in the source)
n_games == 2
\* the final scores a simulated game can end with: 0..MaxFinal
MaxFinal == 2
\* the tiles of one colour in the center when a strategy is called
MaxCenter == 2
\* the reward lists given to rewards_dist: up to MaxLen rewards in
\* -MaxReward..MaxReward
MaxLen == 3
MaxReward == 2

----------------------------------------------------------------------------
(* Tile and board model *)

COLORS == <<"Black", "Blue", "Red", "White", "Yellow">>

Tile == {COLORS[k] : k \in 1..Len(COLORS)}

None == "None"

\* Option<usize>::None of Action.pattern_line_choice
NoLine == 0 - 1

FLOOR_PENALTIES == <<1, 1, 2, 2, 2, 3, 3>>

WALL_COLORS ==
    << <<"Blue", "Yellow", "Red", "Black", "White">>,
       <<"White", "Blue", "Yellow", "Red", "Black">>,
       <<"Black", "White", "Blue", "Yellow", "Red">>,
       <<"Red", "Black", "White", "Blue", "Yellow">>,
       <<"Yellow", "Red", "Black", "White", "Blue">> >>

\* 0..4: the indices of the wall's rows and columns and of the pattern lines
Rows == 0..(Len(WALL_COLORS) - 1)

\* WALL_COLORS[i][j] with the source's 0-based indices
WallColor(i, j) == WALL_COLORS[i + 1][j + 1]

\* WALL_COLORS[row_idx].iter().position(|&x| x == color).unwrap()
ColIdx(row_idx, color) == CHOOSE j \in Rows : WallColor(row_idx, j) = color

Min(a, b) == IF a < b THEN a ELSE b

Max(a, b) == IF a > b THEN a ELSE b

\* values().sum() of a colour -> count map
SumTiles(tiles) ==
    tiles["Black"] + tiles["Blue"] + tiles["Red"] + tiles["White"] + tiles["Yellow"]

----------------------------------------------------------------------------
(* Game state *)

build_empty_display == [c \in Tile |-> 0]

CenterState_new == [tiles |-> [c \in Tile |-> 0], starting_marker |-> TRUE]

PlayerState_new ==
    [score |-> 0,
     wall |-> [i \in Rows |-> [j \in Rows |-> FALSE]],
     pattern_lines |-> [i \in Rows |-> [color |-> None, count |-> 0]],
     floor_line |-> 0,
     starting_marker |-> FALSE]

\* State::new with two displays for each player and none more
State_new_without_odd_display(n) ==
    [factory_displays |-> [d \in 0..((n * 2) - 1) |-> build_empty_display],
     center |-> CenterState_new,
     players |-> [p \in 0..(n - 1) |-> PlayerState_new],
     rounds |-> 0]

State_new(n) ==
    [factory_displays |-> [d \in 0..((n * 2) + 1 - 1) |-> build_empty_display],
     center |-> CenterState_new,
     players |-> [p \in 0..(n - 1) |-> PlayerState_new],
     rounds |-> 0]

Displays(s) == DOMAIN s.factory_displays

Players(s) == DOMAIN s.players

has_no_tiles(display) == SumTiles(display) = 0

center_has_no_tiles(center) == SumTiles(center.tiles) = 0

\* has_completed_row looking at the columns of the wall
has_completed_column(player) == \E j \in Rows : \A i \in Rows : player.wall[i][j]

has_completed_row(player) == \E i \in Rows : \A j \in Rows : player.wall[i][j]

is_round_over(s) ==
    /\ center_has_no_tiles(s.center)
    /\ \E d \in Displays(s) : has_no_tiles(s.factory_displays[d])

is_game_over(s) ==
    /\ is_round_over(s)
    /\ \E p \in Players(s) : has_completed_row(s.players[p])

----------------------------------------------------------------------------
(* Refill *)

\* the colours COLORS.choose(&mut rng) returns in refill_tiles
DrawColors == {COLORS[k] : k \in 1..Min(NDrawColors, Len(COLORS))}

\* the outcomes of the `for _i in 0..4` draws for one display: how many of
\* the four draws gave each colour
Hands ==
    {[c \in Tile |-> Cardinality({i \in 0..3 : tiles[i] = c})] :
        tiles \in [0..3 -> DrawColors]}

\* refill_tiles drawing no tile
refill_tiles_draws_nothing(s, draws) ==
    [s EXCEPT !.center = CenterState_new]

\* refill_tiles without the reset of the center
refill_tiles_keeps_center(s, draws) ==
    [s EXCEPT
        !.factory_displays =
            [d \in Displays(s) |->
                [c \in Tile |-> s.factory_displays[d][c] + draws[d][c]]]]

\* refill_tiles, with draws[d] the hand drawn for display d
refill_tiles(s, draws) ==
    [s EXCEPT
        !.factory_displays =
            [d \in Displays(s) |->
                [c \in Tile |-> s.factory_displays[d][c] + draws[d][c]]],
        !.center = CenterState_new]

----------------------------------------------------------------------------
(* Actions of a player *)

FactoryDisplay(i) == [tag |-> "FactoryDisplay", idx |-> i]

Center == [tag |-> "Center", idx |-> 0 - 1]

Action(display, color, line) ==
    [action_display_choice |-> display,
     color_choice |-> color,
     pattern_line_choice |-> line]

\* take_out_tiles taking every tile of the center with the chosen colour
take_out_tiles_clears_center(s, action, color) ==
    IF action.tag = "Center"
    THEN [state |-> [s EXCEPT !.center.tiles = [c \in Tile |-> 0]],
          count |-> s.center.tiles[color]]
    ELSE [state |->
             [s EXCEPT
                 !.center.tiles =
                     [c \in Tile |->
                         IF color = c
                         THEN s.center.tiles[c]
                         ELSE s.center.tiles[c] + s.factory_displays[action.idx][c]],
                 !.factory_displays[action.idx] = [c \in Tile |-> 0]],
          count |-> s.factory_displays[action.idx][color]]

\* take_out_tiles leaving the taken tiles in their pool
take_out_tiles_leaves_taken(s, action, color) ==
    IF action.tag = "Center"
    THEN [state |-> s, count |-> s.center.tiles[color]]
    ELSE [state |-> s, count |-> s.factory_displays[action.idx][color]]

\* take_out_tiles leaving the other colours on the display
take_out_tiles_leaves_others(s, action, color) ==
    IF action.tag = "Center"
    THEN [state |-> [s EXCEPT !.center.tiles[color] = 0],
          count |-> s.center.tiles[color]]
    ELSE [state |-> [s EXCEPT !.factory_displays[action.idx][color] = 0],
          count |-> s.factory_displays[action.idx][color]]

\* take_out_tiles: the state after the tiles left, and the number taken
\* (tiles.len() of the returned vec![color; count])
take_out_tiles(s, action, color) ==
    IF action.tag = "Center"
    THEN [state |-> [s EXCEPT !.center.tiles[color] = 0],
          count |-> s.center.tiles[color]]
    ELSE LET i == action.idx
             display == s.factory_displays[i]
         IN  [state |->
                 [s EXCEPT
                     !.center.tiles =
                         [c \in Tile |->
                             IF color = c
                             THEN s.center.tiles[c]
                             ELSE s.center.tiles[c] + display[c]],
                     !.factory_displays[i] = [c \in Tile |-> 0]],
              count |-> display[color]]

wall_row_has_color(wall, row_idx, color) == wall[row_idx][ColIdx(row_idx, color)]

\* the test of find_empty_lines without the look at the wall
line_is_available_ignores_wall(s, color, player_idx, i) ==
    LET line_size == i + 1
        line == s.players[player_idx].pattern_lines[i]
    IN  IF line.color = None
        THEN TRUE
        ELSE line.color = color /\ line_size > line.count

\* the test of find_empty_lines for the line i
line_is_available(s, color, player_idx, i) ==
    LET line_size == i + 1
        line == s.players[player_idx].pattern_lines[i]
        wall == s.players[player_idx].wall
    IN  IF line.color = None
        THEN ~wall_row_has_color(wall, i, color)
        ELSE line.color = color /\ line_size > line.count

find_empty_lines(s, color, player_idx) ==
    LET available(i) == line_is_available(s, color, player_idx, i)
    IN  SelectSeq(<<0, 1, 2, 3, 4>>, available)

\* stage_tiles without the clamp of the floor line
stage_tiles_no_clamp(s, player_idx, line, color, count) ==
    LET player == s.players[player_idx]
        staged ==
            IF line = NoLine
            THEN [player EXCEPT !.floor_line = @ + count]
            ELSE LET line_size == line + 1
                     space == line_size - player.pattern_lines[line].count
                 IN  IF space < count
                     THEN [player EXCEPT
                              !.pattern_lines[line] = [color |-> color, count |-> space],
                              !.floor_line = @ + (count - space)]
                     ELSE [player EXCEPT
                              !.pattern_lines[line] = [color |-> color, count |-> count]]
    IN  [s EXCEPT !.players[player_idx] = staged]

stage_tiles(s, player_idx, line, color, count) ==
    LET player == s.players[player_idx]
        staged ==
            IF line = NoLine
            THEN [player EXCEPT !.floor_line = @ + count]
            ELSE LET line_size == line + 1
                     space == line_size - player.pattern_lines[line].count
                 IN  IF space < count
                     THEN [player EXCEPT
                              !.pattern_lines[line] = [color |-> color, count |-> space],
                              !.floor_line = @ + (count - space)]
                     ELSE [player EXCEPT
                              !.pattern_lines[line] = [color |-> color, count |-> count]]
    IN  [s EXCEPT !.players[player_idx] =
            [staged EXCEPT !.floor_line = Min(staged.floor_line, 7)]]

\* list_valid_lines without the floor line
list_valid_lines_without_floor(s, player_idx, color) ==
    find_empty_lines(s, color, player_idx)

list_valid_lines(s, player_idx, color) ==
    Append(find_empty_lines(s, color, player_idx), NoLine)

\* the actions pushed for one source: for color in COLORS, for line in
\* list_valid_lines, when the source holds the colour
RECURSIVE source_actions(_, _, _, _, _)
source_actions(s, player_idx, display, tiles, k) ==
    IF k > Len(COLORS)
    THEN <<>>
    ELSE LET color == COLORS[k]
             lines == list_valid_lines(s, player_idx, color)
             here ==
                 IF tiles[color] > 0
                 THEN [l \in 1..Len(lines) |-> Action(display, color, lines[l])]
                 ELSE <<>>
         IN  here \o source_actions(s, player_idx, display, tiles, k + 1)

\* the test for skipping a display, negated
display_is_empty_negated(display) == DOMAIN display # {}

\* state.factory_displays[display_idx].is_empty(): HashMap::is_empty is true
\* of a map without keys
display_is_empty(display) == DOMAIN display = {}

\* the `for display_idx in 0..state.factory_displays.len()` loop, from
\* display_idx on
RECURSIVE display_actions(_, _, _)
display_actions(s, player_idx, display_idx) ==
    IF display_idx >= Cardinality(Displays(s))
    THEN <<>>
    ELSE LET display == s.factory_displays[display_idx]
             here ==
                 IF display_is_empty(display)
                 THEN <<>>
                 ELSE source_actions(s, player_idx, FactoryDisplay(display_idx),
                                     display, 1)
         IN  here \o display_actions(s, player_idx, display_idx + 1)

list_valid_actions(s, player_idx) ==
    display_actions(s, player_idx, 0)
        \o (IF ~center_has_no_tiles(s.center)
            THEN source_actions(s, player_idx, Center, s.center.tiles, 1)
            ELSE <<>>)

\* take_action giving the marker at every pick from the center
take_action_marks_every_pick(s, player_idx, action) ==
    LET taken == take_out_tiles(s, action.action_display_choice, action.color_choice)
        marked ==
            IF action.action_display_choice.tag = "Center"
            THEN [taken.state EXCEPT
                     !.players[player_idx].starting_marker = TRUE,
                     !.center.starting_marker = FALSE]
            ELSE taken.state
    IN  stage_tiles(marked, player_idx, action.pattern_line_choice,
                    action.color_choice, taken.count)

\* take_action giving the starting marker to the first seat
take_action_marks_first_seat(s, player_idx, action) ==
    LET taken == take_out_tiles(s, action.action_display_choice, action.color_choice)
        marked ==
            IF action.action_display_choice.tag = "Center"
               /\ taken.state.center.starting_marker
            THEN [taken.state EXCEPT
                     !.players[0].starting_marker = TRUE,
                     !.center.starting_marker = FALSE]
            ELSE taken.state
    IN  stage_tiles(marked, player_idx, action.pattern_line_choice,
                    action.color_choice, taken.count)

take_action(s, player_idx, action) ==
    LET taken == take_out_tiles(s, action.action_display_choice, action.color_choice)
        marked ==
            IF action.action_display_choice.tag = "Center"
               /\ taken.state.center.starting_marker
            THEN [taken.state EXCEPT
                     !.players[player_idx].starting_marker = TRUE,
                     !.center.starting_marker = FALSE]
            ELSE taken.state
    IN  stage_tiles(marked, player_idx, action.pattern_line_choice,
                    action.color_choice, taken.count)

\* take_action can panic: the index of the display or of the pattern line is
\* out of bounds, or (in a build with overflow checks) the line holds more
\* tiles than its size and `line_size - count` overflows; nothing else in
\* take_out_tiles, take_action and stage_tiles looks at the action
take_action_panics(s, player_idx, action) ==
    \/ /\ action.action_display_choice.tag = "FactoryDisplay"
       /\ action.action_display_choice.idx \notin Displays(s)
    \/ /\ action.pattern_line_choice # NoLine
       /\ action.pattern_line_choice \notin Rows
    \/ /\ action.pattern_line_choice \in Rows
       /\ s.players[player_idx].pattern_lines[action.pattern_line_choice].count
              > action.pattern_line_choice + 1

----------------------------------------------------------------------------
(* End-of-round scoring *)

\* the first loop of count_continuous, from step i on: cells left of anchor
RECURSIVE count_below(_, _, _)
count_below(array, anchor, i) ==
    IF i >= 5 \/ anchor - i < 0
    THEN 0
    ELSE IF array[anchor - i]
         THEN 1 + count_below(array, anchor, i + 1)
         ELSE 0

\* the second loop of count_continuous, from step i on: cells right of anchor
RECURSIVE count_above(_, _, _)
count_above(array, anchor, i) ==
    IF i >= 5 \/ anchor + i > 4
    THEN 0
    ELSE IF array[anchor + i]
         THEN 1 + count_above(array, anchor, i + 1)
         ELSE 0

\* count_continuous counting the anchor cell too
count_continuous_counts_anchor(array, anchor) ==
    count_below(array, anchor, 0) + count_above(array, anchor, 1)

count_continuous(array, anchor) ==
    count_below(array, anchor, 1) + count_above(array, anchor, 1)

\* `col` of score_placement: (0..5).map(|i| wall[row_idx][i])
placement_col(wall, row_idx) == [i \in Rows |-> wall[row_idx][i]]

\* the adjacency part of score_placement
placement_base(wall, row_idx, color) ==
    LET col_idx == ColIdx(row_idx, color)
        col == placement_col(wall, row_idx)
        col_continuous == count_continuous(col, col_idx)
        row_continuous == count_continuous(wall[row_idx], row_idx)
    IN  Max(col_continuous + row_continuous, 1)

col_completed(wall, row_idx, color) ==
    LET col == placement_col(wall, row_idx)
    IN  \A i \in Rows : IF i = row_idx THEN TRUE ELSE col[i]

\* row_completed without the new tile treated as placed
row_completed_without_placed(wall, row_idx, color) ==
    \A i \in Rows : wall[row_idx][i]

row_completed(wall, row_idx, color) ==
    LET col_idx == ColIdx(row_idx, color)
    IN  \A i \in Rows : IF i = col_idx THEN TRUE ELSE wall[row_idx][i]

\* color_coverage without the new tile counted
color_coverage_without_placed(wall, row_idx, color) ==
    Cardinality({ij \in Rows \X Rows :
        WallColor(ij[1], ij[2]) = color /\ wall[ij[1]][ij[2]]})

color_coverage(wall, row_idx, color) ==
    LET col_idx == ColIdx(row_idx, color)
    IN  Cardinality({ij \in Rows \X Rows :
            IF ij[1] = row_idx /\ ij[2] = col_idx
            THEN TRUE
            ELSE WallColor(ij[1], ij[2]) = color /\ wall[ij[1]][ij[2]]})

score_placement(wall, row_idx, color) ==
    placement_base(wall, row_idx, color)
        + (IF col_completed(wall, row_idx, color) THEN 7 ELSE 0)
        + (IF row_completed(wall, row_idx, color) THEN 2 ELSE 0)
        + (IF color_coverage(wall, row_idx, color) = 5 THEN 10 ELSE 0)

\* the loop of tile_wall_and_score scoring every full line against the wall
\* as it was before the call, and tiling the wall afterwards
RECURSIVE tile_lines_scores_before_tiling(_, _, _)
tile_lines_scores_before_tiling(player, tiling_points, i) ==
    IF i >= 5
    THEN [player |->
             [player EXCEPT
                 !.wall = [r \in Rows |-> [c \in Rows |->
                     \/ player.wall[r][c]
                     \/ /\ player.pattern_lines[r].count = r + 1
                        /\ c = ColIdx(r, player.pattern_lines[r].color)]],
                 !.pattern_lines = [r \in Rows |->
                     IF player.pattern_lines[r].count = r + 1
                     THEN [color |-> None, count |-> 0]
                     ELSE player.pattern_lines[r]]],
          tiling_points |-> tiling_points]
    ELSE LET line == player.pattern_lines[i]
         IN  IF line.count = i + 1
             THEN tile_lines_scores_before_tiling(
                      player,
                      tiling_points + score_placement(player.wall, i, line.color),
                      i + 1)
             ELSE tile_lines_scores_before_tiling(player, tiling_points, i + 1)

\* the loop of tile_wall_and_score leaving the tiles on the full lines
RECURSIVE tile_lines_keeps_lines(_, _, _)
tile_lines_keeps_lines(player, tiling_points, i) ==
    IF i >= 5
    THEN [player |-> player, tiling_points |-> tiling_points]
    ELSE LET line == player.pattern_lines[i]
         IN  IF line.count = i + 1
             THEN tile_lines_keeps_lines(
                      [player EXCEPT !.wall[i][ColIdx(i, line.color)] = TRUE],
                      tiling_points + score_placement(player.wall, i, line.color),
                      i + 1)
             ELSE tile_lines_keeps_lines(player, tiling_points, i + 1)

\* the `for i in 0..5` loop of tile_wall_and_score, from line i on: the player
\* after the tiling, and the tiling points
RECURSIVE tile_lines(_, _, _)
tile_lines(player, tiling_points, i) ==
    IF i >= 5
    THEN [player |-> player, tiling_points |-> tiling_points]
    ELSE LET line_size == i + 1
             line == player.pattern_lines[i]
         IN  IF line.count = line_size
             THEN LET color == line.color
                      col_idx == ColIdx(i, color)
                  IN  tile_lines(
                          [player EXCEPT
                              !.wall[i][col_idx] = TRUE,
                              !.pattern_lines[i] = [color |-> None, count |-> 0]],
                          tiling_points + score_placement(player.wall, i, color),
                          i + 1)
             ELSE tile_lines(player, tiling_points, i + 1)

\* a penalty of one point for each tile of the floor line
floor_penalty_one_per_tile(n) == n

\* FLOOR_PENALTIES.iter().take(n).sum()
RECURSIVE floor_penalty(_)
floor_penalty(n) ==
    IF n = 0
    THEN 0
    ELSE IF n > Len(FLOOR_PENALTIES)
         THEN floor_penalty(Len(FLOOR_PENALTIES))
         ELSE FLOOR_PENALTIES[n] + floor_penalty(n - 1)

\* tile_wall_and_score without the clamp of the score
tile_wall_and_score_no_clamp(s, player_idx) ==
    LET tiled == tile_lines(s.players[player_idx], 0, 0)
        penalties == floor_penalty(tiled.player.floor_line)
        accumulator == tiled.tiling_points - penalties
    IN  [s EXCEPT !.players[player_idx] =
            [tiled.player EXCEPT
                !.score = @ + accumulator,
                !.floor_line = 0]]

tile_wall_and_score(s, player_idx) ==
    LET tiled == tile_lines(s.players[player_idx], 0, 0)
        penalties == floor_penalty(tiled.player.floor_line)
        accumulator == tiled.tiling_points - penalties
    IN  [s EXCEPT !.players[player_idx] =
            [tiled.player EXCEPT
                !.score = Max(@ + accumulator, 0),
                !.floor_line = 0]]

\* the seat of the first player holding the starting marker, or NoSeat
NoSeat == 0 - 1

\* first_player finding no seat with the starting marker
first_player_finds_none(s) == NoSeat

first_player(s) ==
    IF \E i \in Players(s) : s.players[i].starting_marker
    THEN CHOOSE i \in Players(s) :
            /\ s.players[i].starting_marker
            /\ \A j \in Players(s) : s.players[j].starting_marker => i <= j
    ELSE NoSeat

\* Iterator::max_by_key from seat i on, best being the maximum so far: an
\* element that compares equal to the maximum replaces it
RECURSIVE max_by_score(_, _, _)
max_by_score(s, best, i) ==
    IF i >= Cardinality(Players(s))
    THEN best
    ELSE IF s.players[i].score >= s.players[best].score
         THEN max_by_score(s, i, i + 1)
         ELSE max_by_score(s, best, i + 1)

winner(s) == max_by_score(s, 0, 1)

----------------------------------------------------------------------------
(* The game loop of simulate *)

\* players.len() of simulate
n_players == 2

\* validate accepting a game of one player
validate_at_least_one(s) ==
    LET n == Cardinality(Players(s))
    IN  IF n < 1 \/ n > 4 THEN "Err" ELSE "Ok"

validate(s) ==
    LET n == Cardinality(Players(s))
    IN  IF n < 2 \/ n > 4 THEN "Err" ELSE "Ok"

\* the draws of one refill that the model explores: every display draws the
\* same hand
RefillDraws(s) == {[d \in Displays(s) |-> h] : h \in Hands}

Init ==
    /\ state = State_new(n_players)
    /\ pc = "validate"
    /\ current_player = 0
    /\ ply_id = 0
    /\ ret = NoSeat
    /\ NoCounting
    /\ NoLogging
    /\ NoSearch

Validate ==
    /\ pc = "validate"
    /\ pc' = IF validate(state) = "Ok" THEN "round" ELSE "done"
    /\ UNCHANGED <<state, current_player, ply_id, search, ret, counting,
                   logging>>

\* the head of the outer loop: the holder of the starting marker begins and
\* gives the marker back, the displays are refilled
StartRound ==
    /\ pc = "round"
    /\ state.rounds < MaxRounds
    /\ LET one == first_player(state)
           unmarked ==
               IF one # NoSeat
               THEN [state EXCEPT !.players[one].starting_marker = FALSE]
               ELSE state
       IN  /\ current_player' = IF one # NoSeat THEN one ELSE 0
           /\ \E draws \in RefillDraws(state) :
                  state' = refill_tiles(unmarked, draws)
    /\ pc' = "ply"
    /\ UNCHANGED <<ply_id, search, ret, counting,
                   logging>>

\* one pass of the inner loop: the strategy of the seat picks one of the
\* valid actions (play_random: any of them) and the action is applied
Ply ==
    /\ pc = "ply"
    /\ ~is_round_over(state)
    /\ ply_id < MaxPly
    /\ LET actions == list_valid_actions(state, current_player)
       IN  IF Len(actions) = 0
           THEN /\ pc' = "panic"
                /\ UNCHANGED <<state, current_player, ply_id>>
           ELSE /\ \E k \in 1..Len(actions) :
                       state' = take_action(state, current_player, actions[k])
                /\ current_player' = (current_player + 1) % n_players
                /\ ply_id' = ply_id + 1
                /\ pc' = "ply"
    /\ UNCHANGED <<search, ret, counting,
                   logging>>

\* tile_wall_and_score for the seats i..n-1, in order
RECURSIVE score_players(_, _)
score_players(s, i) ==
    IF i >= Cardinality(Players(s))
    THEN s
    ELSE score_players(tile_wall_and_score(s, i), i + 1)

\* the round is over: the round counter advances, every seat is scored, and
\* the outer loop ends when the game is over
EndRound ==
    /\ pc = "ply"
    /\ is_round_over(state)
    /\ LET scored == score_players([state EXCEPT !.rounds = @ + 1], 0)
       IN  /\ state' = scored
           /\ pc' = IF is_game_over(scored) THEN "game_end" ELSE "round"
    /\ UNCHANGED <<current_player, ply_id, search, ret, counting,
                   logging>>

Next ==
    \/ Validate
    \/ StartRound
    \/ Ply
    \/ EndRound

Spec == Init /\ [][Next]_vars

----------------------------------------------------------------------------
(* The end of a game: simulate reports the winner *)

\* the states in which a game can end: the pools are empty, a seat has
\* completed the first row of its wall, and the seats' scores are drawn
FinishedStates ==
    UNION {
        {[State_new(n) EXCEPT
            !.players =
                [p \in 0..(n - 1) |->
                    [PlayerState_new EXCEPT
                        !.score = scores[p],
                        !.wall[0] = [j \in Rows |-> p = w]]],
            !.rounds = 5] :
         scores \in [0..(n - 1) -> 0..MaxScore], w \in 0..(n - 1)} :
        n \in 2..Min(MaxSeats, 4)}

InitFinish ==
    /\ state \in FinishedStates
    /\ is_game_over(state)
    /\ pc = "game_end"
    /\ current_player = 0
    /\ ply_id = 0
    /\ ret = NoSeat
    /\ NoCounting
    /\ NoLogging
    /\ NoSearch

Finish ==
    /\ pc = "game_end"
    /\ ret' = winner(state)
    /\ pc' = "done"
    /\ UNCHANGED <<state, current_player, ply_id, search, counting, logging>>

NextFinish == Finish

SpecFinish == InitFinish /\ [][NextFinish]_vars

----------------------------------------------------------------------------
(* The scoring of one seat at the end of a round *)

\* the seat whose scoring is followed
Scorer == 0

\* a wall for a tile about to be placed in row r for a colour: the cell of the
\* placement is not tiled, and the cells of its row, of its column and of its
\* colour are tiled as drawn; the other cells are not tiled
PlacementWall(r, color, in_row, in_col, in_color) ==
    LET c == ColIdx(r, color)
    IN  [i \in Rows |-> [j \in Rows |->
            IF i = r /\ j = c
            THEN FALSE
            ELSE IF i = r
                 THEN j \in in_row
                 ELSE IF j = c
                      THEN i \in in_col
                      ELSE WallColor(i, j) = color /\ i \in in_color]]

\* the state in which a seat is scored that has filled pattern line r with a
\* colour, its wall and its score being drawn
ScoringState(r, color, in_row, in_col, in_color, score) ==
    [State_new(n_players) EXCEPT
        !.players[Scorer].score = score,
        !.players[Scorer].wall =
            PlacementWall(r, color, in_row, in_col, in_color),
        !.players[Scorer].pattern_lines[r] =
            [color |-> color, count |-> r + 1],
        !.rounds = 1]

\* the line holds a colour the displays draw
InitScore ==
    /\ \E r \in Rows : \E color \in DrawColors :
           \E in_row \in SUBSET (Rows \ {ColIdx(r, color)}) :
               \E in_col \in SUBSET (Rows \ {r}) :
                   \E in_color \in SUBSET (Rows \ {r}) :
                       \E score \in {0, MaxScore} :
                           state = ScoringState(r, color, in_row, in_col,
                                                in_color, score)
    /\ pc = "score"
    /\ current_player = 0
    /\ ply_id = 0
    /\ ret = NoSeat
    /\ NoCounting
    /\ NoLogging
    /\ NoSearch

\* azul::tile_wall_and_score for the seat
Score ==
    /\ pc = "score"
    /\ state' = tile_wall_and_score(state, Scorer)
    /\ pc' = "scored"
    /\ UNCHANGED <<current_player, ply_id, search, ret, counting,
                   logging>>

NextScore == Score

SpecScore == InitScore /\ [][NextScore]_vars

----------------------------------------------------------------------------
(* Scoring of a seat with two full pattern lines *)

\* the wall of a seat that is about to tile the lines r1 and r2: in the other
\* rows, the cells of color1 in the rows in1 and of color2 in the rows in2
OrderWall(r1, r2, color1, color2, in1, in2) ==
    [i \in Rows |-> [j \in Rows |->
        /\ i \notin {r1, r2}
        /\ \/ WallColor(i, j) = color1 /\ i \in in1
           \/ WallColor(i, j) = color2 /\ i \in in2]]

\* the lines hold colours the displays draw; the floor line and the score of
\* the seat are drawn
InitOrder ==
    /\ \E r1 \in Rows : \E r2 \in Rows \ (0..r1) :
           \E color1 \in DrawColors : \E color2 \in DrawColors :
               \E in1 \in SUBSET (Rows \ {r1, r2}) :
                   \E in2 \in SUBSET (Rows \ {r1, r2}) :
                       \E score \in {0, MaxScore} : \E floor \in 0..2 :
                           state = [State_new(n_players) EXCEPT
                               !.players[Scorer].score = score,
                               !.players[Scorer].floor_line = floor,
                               !.players[Scorer].wall =
                                   OrderWall(r1, r2, color1, color2, in1, in2),
                               !.players[Scorer].pattern_lines[r1] =
                                   [color |-> color1, count |-> r1 + 1],
                               !.players[Scorer].pattern_lines[r2] =
                                   [color |-> color2, count |-> r2 + 1],
                               !.rounds = 1]
    /\ pc = "score"
    /\ current_player = 0
    /\ ply_id = 0
    /\ ret = NoSeat
    /\ NoCounting
    /\ NoLogging
    /\ NoSearch

NextOrder == Score

SpecOrder == InitOrder /\ [][NextOrder]_vars

----------------------------------------------------------------------------

(* The first round of a game, drawn from more colours *)

MarkerColors == {COLORS[k] : k \in 1..Min(NMarkerColors, Len(COLORS))}

\* the first pass of the outer loop has refilled the displays: no seat holds
\* the starting marker, seat 0 begins
InitMarker ==
    /\ \E tiles \in [0..3 -> MarkerColors] :
           LET hand == [c \in Tile |-> Cardinality({i \in 0..3 : tiles[i] = c})]
           IN  state = refill_tiles(State_new(n_players),
                                    [d \in Displays(State_new(n_players)) |-> hand])
    /\ pc = "ply"
    /\ current_player = 0
    /\ ply_id = 0
    /\ ret = NoSeat
    /\ NoCounting
    /\ NoLogging
    /\ NoSearch

NextMarker ==
    \/ Ply
    \/ EndRound

SpecMarker == InitMarker /\ [][NextMarker]_vars

----------------------------------------------------------------------------
(* A late round of a game: a seat is one tile short of a complete row *)

\* the displays were refilled for the fifth round; seat w lacks one tile, of a
\* colour the displays draw, in the first row of its wall
InitLate ==
    /\ \E w \in 0..(n_players - 1) : \E color \in DrawColors : \E hand \in Hands :
           LET late == [State_new(n_players) EXCEPT
                           !.players[w].wall[0] =
                               [j \in Rows |-> j # ColIdx(0, color)],
                           !.players[w].score = MaxScore,
                           !.rounds = 4]
           IN  state = refill_tiles(late, [d \in Displays(late) |-> hand])
    /\ pc = "ply"
    /\ current_player = 0
    /\ ply_id = 0
    /\ ret = NoSeat
    /\ NoCounting
    /\ NoLogging
    /\ NoSearch

NextLate ==
    \/ Ply
    \/ EndRound
    \/ Finish

SpecLate == InitLate /\ [][NextLate]_vars

----------------------------------------------------------------------------
(* The last plies of a round *)

\* a board whose pattern lines 1..4 hold a Red tile each
BusyBoard ==
    [PlayerState_new EXCEPT
        !.pattern_lines = [i \in Rows |->
                     IF i = 0
                     THEN [color |-> None, count |-> 0]
                     ELSE [color |-> "Red", count |-> 1]]]

\* the last plies of a round: the first display is empty or holds a hand, the
\* other displays are empty, the center holds the drawn tiles, and the
\* starting marker is in the center or with a seat
InitRound ==
    /\ \E tiles \in [DrawColors -> 0..MaxCenter] :
       \E hand \in Hands \cup {build_empty_display} :
       \E holder \in {NoSeat, 0} :
           state = [State_new(n_players) EXCEPT
                       !.factory_displays[0] = hand,
                       !.center.tiles =
                           [c \in Tile |->
                               IF c \in DrawColors THEN tiles[c] ELSE 0],
                       !.center.starting_marker = (holder = NoSeat),
                       !.players = [p \in 0..(n_players - 1) |->
                           [BusyBoard EXCEPT
                               !.starting_marker = (p = holder)]],
                       !.rounds = 4]
    /\ pc = "ply"
    /\ current_player \in 0..(n_players - 1)
    /\ ply_id = 0
    /\ ret = NoSeat
    /\ NoCounting
    /\ NoLogging
    /\ NoSearch

NextRound ==
    \/ Ply
    \/ EndRound

\* the inner loop of simulate goes on until the round is over
SpecRound == InitRound /\ [][NextRound]_vars /\ WF_vars(Ply)

----------------------------------------------------------------------------
(* Validation of games of any number of players *)

\* a caller builds a game with State::new(n), n also outside 2..4, and may
\* have refilled its displays and counted rounds before it validates the game
InitNew ==
    /\ \E n \in 0..(MaxSeats + 2) : \E rounds \in 0..MaxRounds :
           \/ state = [State_new(n) EXCEPT !.rounds = rounds]
           \/ \E hand \in Hands :
                  state = refill_tiles([State_new(n) EXCEPT !.rounds = rounds],
                                       [d \in Displays(State_new(n)) |-> hand])
    /\ pc = "validate"
    /\ current_player = 0
    /\ ply_id = 0
    /\ ret = NoSeat
    /\ NoCounting
    /\ NoLogging
    /\ NoSearch

NextNew == Validate

SpecNew == InitNew /\ [][NextNew]_vars

----------------------------------------------------------------------------
(* Games from their first round on, and games in a late round *)

InitGame ==
    \/ Init
    \/ InitLate

NextGame ==
    \/ Validate
    \/ StartRound
    \/ Ply
    \/ EndRound
    \/ Finish

SpecGame == InitGame /\ [][NextGame]_vars

----------------------------------------------------------------------------
(* Strategies *)

\* calculate_reward measuring the gain from the score noted in the state
calculate_reward_from_noted_score(s, player_idx, action) ==
    LET state_clone_b ==
            tile_wall_and_score(take_action(s, player_idx, action), player_idx)
    IN  state_clone_b.players[player_idx].score - s.players[player_idx].score

calculate_reward(s, player_idx, action) ==
    LET state_clone_a == tile_wall_and_score(s, player_idx)
        state_clone_b ==
            tile_wall_and_score(take_action(s, player_idx, action), player_idx)
    IN  state_clone_b.players[player_idx].score
            - state_clone_a.players[player_idx].score

\* the rewards of the actions, in their order
action_rewards(s, player_idx, actions) ==
    [k \in 1..Len(actions) |-> calculate_reward(s, player_idx, actions[k])]

\* Iterator::max_by_key over the keys from position i on, best being the
\* position of the maximum so far: an element that compares equal to the
\* maximum replaces it
RECURSIVE max_by_key_from(_, _, _)
max_by_key_from(keys, best, i) ==
    IF i > Len(keys)
    THEN best
    ELSE IF keys[i] >= keys[best]
         THEN max_by_key_from(keys, i, i + 1)
         ELSE max_by_key_from(keys, best, i + 1)

\* the position max_by_key returns for a list of keys that is not empty
max_by_key(keys) == max_by_key_from(keys, 1, 2)

\* the position in list_valid_actions of the action play_greedy applies, the
\* list not being empty
greedy_choice(s, player_idx) ==
    max_by_key(action_rewards(s, player_idx, list_valid_actions(s, player_idx)))

\* rewards_dist keeping the weights when all of them are 0
rewards_dist_without_fallback(rewards_in) ==
    [i \in 1..Len(rewards_in) |-> Max(rewards_in[i], 0)]

rewards_dist(rewards_in) ==
    LET clamped == [i \in 1..Len(rewards_in) |-> Max(rewards_in[i], 0)]
    IN  IF \A i \in 1..Len(clamped) : clamped[i] = 0
        THEN [i \in 1..Len(clamped) |-> 1]
        ELSE clamped

\* scores.iter().max() of a list of scores that is not empty
max_score(scores) ==
    CHOOSE x \in {scores[i] : i \in 1..Len(scores)} :
        \A i \in 1..Len(scores) : scores[i] <= x

\* filter(n_games > 0).max_by(max score) over the log from position i on,
\* best being the position of the maximum so far (0: none yet): an element
\* that compares equal to the maximum replaces it
RECURSIVE best_from(_, _, _)
best_from(log, best, i) ==
    IF i > Len(log)
    THEN best
    ELSE IF log[i].n_games = 0
         THEN best_from(log, best, i + 1)
         ELSE IF best = 0
                 \/ max_score(log[i].scores) >= max_score(log[best].scores)
              THEN best_from(log, i, i + 1)
              ELSE best_from(log, best, i + 1)

\* best_action_idx of play_mcts, as a position of the list of actions (0 when
\* no action has a trial, where the unwrap panics)
best_action_idx(log) == best_from(log, 0, 1)

----------------------------------------------------------------------------
(* rewards_dist on drawn lists of rewards *)

InitDist ==
    /\ state = State_new(n_players)
    /\ pc = "rewards_dist"
    /\ current_player = 0
    /\ ply_id = 0
    /\ \E n \in 0..MaxLen :
           rewards \in [1..n -> (0 - MaxReward)..MaxReward]
    /\ rewards_d = <<>>
    /\ action_log = <<>>
    /\ games_done = 0
    /\ action_idx = 0
    /\ ret = NoSeat
    /\ NoCounting
    /\ NoLogging

RewardsDist ==
    /\ pc = "rewards_dist"
    /\ rewards_d' = rewards_dist(rewards)
    /\ pc' = "dist_done"
    /\ UNCHANGED <<state, current_player, ply_id, rewards, action_log,
                   games_done, action_idx, ret, counting,
                   logging>>

NextDist == RewardsDist

SpecDist == InitDist /\ [][NextDist]_vars

----------------------------------------------------------------------------
(* count_continuous on drawn arrays *)

InitCount ==
    /\ state = State_new(n_players)
    /\ pc = "count_continuous"
    /\ current_player = 0
    /\ ply_id = 0
    /\ arg_array \in [Rows -> BOOLEAN]
    /\ arg_anchor \in Rows
    /\ ret = 0
    /\ NoSearch
    /\ NoLogging

CountContinuous ==
    /\ pc = "count_continuous"
    /\ ret' = count_continuous(arg_array, arg_anchor)
    /\ pc' = "counted"
    /\ UNCHANGED <<state, current_player, ply_id, search, counting, logging>>

NextCount == CountContinuous

SpecCount == InitCount /\ [][NextCount]_vars

----------------------------------------------------------------------------

(* A strategy plays one ply *)

\* the seat that calls the strategy
Caller == 0

\* the board of the caller: it has tiled Yellow in the rows 0..3 of its wall,
\* its pattern lines 2..4 hold one Red tile, and each of the lines 0 and 1 is
\* empty or holds one Red tile, as drawn
CallerBoard(free, score) ==
    [PlayerState_new EXCEPT
        !.score = score,
        !.wall = [i \in Rows |-> [j \in Rows |->
                     i < 4 /\ WallColor(i, j) = "Yellow"]],
        !.pattern_lines = [i \in Rows |->
                     IF i \in free
                     THEN [color |-> None, count |-> 0]
                     ELSE [color |-> "Red", count |-> 1]]]

\* late in a round: the displays are empty and the center holds the drawn
\* tiles, of the colours the displays draw (none: the round is over and a
\* strategy has no action to choose)
InitStrategy ==
    /\ \E tiles \in [DrawColors -> 0..MaxCenter] :
           \E free \in SUBSET {0, 1} : \E score \in {0, MaxScore} :
               state = [State_new(n_players) EXCEPT
                           !.center.tiles =
                               [c \in Tile |->
                                   IF c \in DrawColors THEN tiles[c] ELSE 0],
                           !.players[Caller] = CallerBoard(free, score),
                           !.rounds = MaxRounds]
    /\ pc = "strategy"
    /\ current_player = Caller
    /\ ply_id = 0
    /\ ret = NoSeat
    /\ NoCounting
    /\ NoLogging
    /\ NoSearch

\* play_random returning without an action when the list is empty
PlayRandom_returns_without_action ==
    /\ pc = "strategy"
    /\ LET actions == list_valid_actions(state, current_player)
       IN  IF Len(actions) = 0
           THEN /\ pc' = "played"
                /\ UNCHANGED state
           ELSE /\ \E k \in 1..Len(actions) :
                       state' = take_action(state, current_player, actions[k])
                /\ pc' = "played"
    /\ UNCHANGED <<current_player, ply_id, search, ret, counting,
                   logging>>

\* play_random: choose(..).unwrap() panics on an empty list
PlayRandom ==
    /\ pc = "strategy"
    /\ LET actions == list_valid_actions(state, current_player)
       IN  IF Len(actions) = 0
           THEN /\ pc' = "panic"
                /\ UNCHANGED state
           ELSE /\ \E k \in 1..Len(actions) :
                       state' = take_action(state, current_player, actions[k])
                /\ pc' = "played"
    /\ UNCHANGED <<current_player, ply_id, search, ret, counting,
                   logging>>

\* play_greedy: max_by_key(..).unwrap() panics on an empty list
PlayGreedy ==
    /\ pc = "strategy"
    /\ LET actions == list_valid_actions(state, current_player)
       IN  IF Len(actions) = 0
           THEN /\ pc' = "panic"
                /\ UNCHANGED state
           ELSE /\ state' = take_action(state, current_player,
                                actions[greedy_choice(state, current_player)])
                /\ pc' = "played"
    /\ UNCHANGED <<current_player, ply_id, search, ret, counting,
                   logging>>

\* play_mcts up to its loop
MctsStart ==
    /\ pc = "strategy"
    /\ LET actions == list_valid_actions(state, current_player)
           found == action_rewards(state, current_player, actions)
       IN  /\ rewards' = found
           /\ rewards_d' = rewards_dist(found)
           /\ action_log' = [k \in 1..Len(actions) |->
                                [scores |-> <<>>, n_wins |-> 0, n_games |-> 0]]
    /\ games_done' = 0
    /\ pc' = "mcts"
    /\ UNCHANGED <<state, current_player, ply_id, action_idx, ret, counting,
                   logging>>

\* a pass of the loop of play_mcts that records the score and not the trial
MctsTrial_without_count ==
    /\ pc = "mcts"
    /\ games_done < n_games
    /\ Len(rewards_d) > 0
    /\ \E a \in 1..Len(rewards_d) : \E final \in 0..MaxFinal :
           /\ action_idx' = a
           /\ action_log' = [action_log EXCEPT ![a].scores = Append(@, final)]
    /\ games_done' = games_done + 1
    /\ pc' = "mcts"
    /\ UNCHANGED <<state, current_player, ply_id, rewards, rewards_d,
                   ret, counting,
                   logging>>

\* one pass of the loop of play_mcts.  The first action is any of the actions
\* (the epsilon branch) or one with a positive weight (WeightedIndex); both
\* unwraps panic when there is no action.  The game simulated on the clone of
\* the state ends with some final score of the seat, and the seat wins it or
\* not.
MctsTrial ==
    /\ pc = "mcts"
    /\ games_done < n_games
    /\ IF Len(rewards_d) = 0
       THEN /\ pc' = "panic"
            /\ UNCHANGED <<action_log, games_done, action_idx>>
       ELSE /\ \E explore \in BOOLEAN :
                  \E a \in IF explore
                           THEN 1..Len(rewards_d)
                           ELSE {k \in 1..Len(rewards_d) : rewards_d[k] > 0} :
                      \E final \in 0..MaxFinal : \E won \in {0, 1} :
                          /\ action_idx' = a
                          /\ action_log' =
                                 [action_log EXCEPT ![a] =
                                     [scores |-> Append(@.scores, final),
                                      n_wins |-> @.n_wins + won,
                                      n_games |-> @.n_games + 1]]
            /\ games_done' = games_done + 1
            /\ pc' = "mcts"
    /\ UNCHANGED <<state, current_player, ply_id, rewards, rewards_d, ret,
                   counting, logging>>

\* play_mcts after its loop: the best action is applied
MctsPick ==
    /\ pc = "mcts"
    /\ games_done = n_games
    /\ LET actions == list_valid_actions(state, current_player)
           best == best_action_idx(action_log)
       IN  IF best = 0
           THEN /\ pc' = "panic"
                /\ UNCHANGED state
           ELSE /\ state' = take_action(state, current_player, actions[best])
                /\ pc' = "played"
    /\ UNCHANGED <<current_player, ply_id, search, ret, counting,
                   logging>>

NextStrategy ==
    \/ PlayRandom
    \/ PlayGreedy
    \/ MctsStart
    \/ MctsTrial
    \/ MctsPick

SpecStrategy == InitStrategy /\ [][NextStrategy]_vars

----------------------------------------------------------------------------
(* One simulated game of play_mcts *)

\* late in a round of a late game: the displays are empty, the center holds
\* the drawn tiles, the caller is one tile short of the first row of its
\* wall, and the starting marker is in the center or with the other seat.
\* The simulated game starts, or it is under way and the other seat has taken
\* its last action.
InitRollout ==
    /\ \E tiles \in [DrawColors -> 0..MaxCenter] : \E color \in DrawColors :
       \E holder \in {NoSeat, 1} : \E started \in BOOLEAN :
           LET late == [State_new(n_players) EXCEPT
                           !.center.tiles =
                               [c \in Tile |->
                                   IF c \in DrawColors THEN tiles[c] ELSE 0],
                           !.center.starting_marker = (holder = NoSeat),
                           !.players[Caller].wall[0] =
                               [j \in Rows |-> j # ColIdx(0, color)],
                           !.players[Caller].score = MaxScore,
                           !.rounds = 4]
               marked == IF holder = NoSeat
                         THEN late
                         ELSE [late EXCEPT
                                  !.players[holder].starting_marker = TRUE]
               actions == list_valid_actions(marked, Caller)
               found == action_rewards(marked, Caller, actions)
           IN  /\ \E c \in DrawColors : tiles[c] > 0
               /\ state = marked
               /\ rewards = found
               /\ rewards_d = rewards_dist(found)
               /\ action_log = [k \in 1..Len(actions) |->
                                   [scores |-> <<>>, n_wins |-> 0, n_games |-> 0]]
               /\ IF started
                  THEN /\ pc = "rollout"
                       /\ action_idx = 1
                       /\ current_player = 1
                       /\ ply_id = MaxRolloutPly - 1
                  ELSE /\ pc = "trial"
                       /\ action_idx = 0
                       /\ current_player = Caller
                       /\ ply_id = 0
    /\ games_done = 0
    /\ ret = NoSeat
    /\ NoCounting
    /\ NoLogging

\* the head of a pass of the loop of play_mcts: the first action is applied
\* to future_state, which is the state of this model from here on
RolloutFirst ==
    /\ pc = "trial"
    /\ LET actions == list_valid_actions(state, Caller)
       IN  IF Len(rewards_d) = 0
           THEN /\ pc' = "panic"
                /\ UNCHANGED <<state, action_idx, ply_id>>
           ELSE /\ \E explore \in BOOLEAN :
                      \E a \in IF explore
                               THEN 1..Len(rewards_d)
                               ELSE {k \in 1..Len(rewards_d) : rewards_d[k] > 0} :
                          /\ action_idx' = a
                          /\ state' = take_action(state, Caller, actions[a])
                /\ ply_id' = ply_id + 1
                /\ pc' = "rollout"
    /\ current_player' = Caller
    /\ UNCHANGED <<rewards, rewards_d, action_log, games_done, ret, counting,
                   logging>>

\* one pass of the inner loop of play_mcts that does not break: a round that
\* is over is counted, scored and refilled, and the next seat takes the
\* action mcts_ply returns (any of its actions: the epsilon branch)
RolloutStep ==
    /\ pc = "rollout"
    /\ ~is_game_over(state)
    /\ ply_id < MaxRolloutPly
    /\ \E draws \in RefillDraws(state) :
           LET future_state ==
                   IF is_round_over(state)
                   THEN refill_tiles(
                            score_players([state EXCEPT !.rounds = @ + 1], 0),
                            draws)
                   ELSE state
               next_player_idx ==
                   (current_player + 1) % Cardinality(Players(state))
               actions == list_valid_actions(future_state, next_player_idx)
           IN  /\ current_player' = next_player_idx
               /\ IF Len(actions) = 0
                  THEN /\ pc' = "panic"
                       /\ state' = future_state
                       /\ UNCHANGED ply_id
                  ELSE /\ \E k \in 1..Len(actions) :
                              state' = take_action(future_state,
                                                   next_player_idx, actions[k])
                       /\ ply_id' = ply_id + 1
                       /\ pc' = "rollout"
    /\ UNCHANGED <<search, ret, counting, logging>>

\* the simulated game being recorded whenever a round is over
RolloutRecord_at_round_over ==
    /\ pc = "rollout"
    /\ is_round_over(state)
    /\ action_log' =
           [action_log EXCEPT ![action_idx] =
               [scores |-> Append(@.scores, state.players[Caller].score),
                n_wins |-> @.n_wins + (IF winner(state) = Caller THEN 1 ELSE 0),
                n_games |-> @.n_games + 1]]
    /\ games_done' = games_done + 1
    /\ pc' = "recorded"
    /\ UNCHANGED <<state, current_player, ply_id, rewards, rewards_d,
                   action_idx, ret, counting, logging>>

\* the inner loop breaks and the simulated game is recorded in action_log
RolloutRecord ==
    /\ pc = "rollout"
    /\ is_game_over(state)
    /\ action_log' =
           [action_log EXCEPT ![action_idx] =
               [scores |-> Append(@.scores, state.players[Caller].score),
                n_wins |-> @.n_wins + (IF winner(state) = Caller THEN 1 ELSE 0),
                n_games |-> @.n_games + 1]]
    /\ games_done' = games_done + 1
    /\ pc' = "recorded"
    /\ UNCHANGED <<state, current_player, ply_id, rewards, rewards_d,
                   action_idx, ret, counting, logging>>

NextRollout ==
    \/ RolloutFirst
    \/ RolloutStep
    \/ RolloutRecord

SpecRollout == InitRollout /\ [][NextRollout]_vars

----------------------------------------------------------------------------

(* The game loop of simulate and the simulated games of play_mcts *)

InitLoops ==
    \/ InitGame
    \/ InitRollout

NextLoops ==
    \/ NextGame
    \/ NextRollout

SpecLoops == InitLoops /\ [][NextLoops]_vars

----------------------------------------------------------------------------

(* The games of simulate that run in parallel and push to play_log *)

\* the PlayLogPly a game pushes next; the records "init" and "reset-round"
\* have the round and the ply -1
PlayLogPly(g) ==
    LET t == threads[g]
    IN  [game_id |-> g,
         round_id |-> IF t.kind = "ply" THEN t.round_id ELSE 0 - 1,
         ply_id |-> IF t.kind = "ply" THEN t.ply_id ELSE 0 - 1,
         action |-> t.kind]

\* every game is about to push its record "init"
InitLog ==
    /\ state = State_new(n_players)
    /\ pc = "simulate"
    /\ current_player = 0
    /\ ply_id = 0
    /\ ret = NoSeat
    /\ NoSearch
    /\ NoCounting
    /\ play_log = <<>>
    /\ mutex = Unlocked
    /\ threads = [g \in 0..(n_sims - 1) |->
                     [step |-> "lock", kind |-> "init", round_id |-> 0,
                      ply_id |-> 0, len |-> 0, produced |-> <<>>]]

\* play_log.lock() granting the lock while another game holds it
LogLock_without_exclusion ==
    /\ \E g \in DOMAIN threads :
           /\ threads[g].step = "lock"
           /\ mutex' = g
           /\ threads' = [threads EXCEPT ![g].step = "reserve"]
    /\ UNCHANGED <<state, pc, current_player, ply_id, search, counting,
                   play_log, ret>>

\* play_log.lock().unwrap(): a game gets the lock when no game holds it
LogLock ==
    /\ \E g \in DOMAIN threads :
           /\ threads[g].step = "lock"
           /\ mutex = Unlocked
           /\ mutex' = g
           /\ threads' = [threads EXCEPT ![g].step = "reserve"]
    /\ UNCHANGED <<state, pc, current_player, ply_id, search, counting,
                   play_log, ret>>

\* Vec::push, first half: the game reads the length of the log
LogReserve ==
    /\ \E g \in DOMAIN threads :
           /\ threads[g].step = "reserve"
           /\ threads' = [threads EXCEPT
                             ![g].len = Len(play_log),
                             ![g].step = "write"]
    /\ UNCHANGED <<state, pc, current_player, ply_id, search, counting,
                   play_log, mutex, ret>>

\* the positions a game can go to after it pushed a record: the record
\* "reset-round" follows "init", a ply follows "reset-round", and after a ply
\* the round goes on, or it is over and the game goes on or is over
AfterPush(t) ==
    IF t.kind = "init"
    THEN {[t EXCEPT !.step = "lock", !.kind = "reset-round"]}
    ELSE IF t.kind = "reset-round"
         THEN {[t EXCEPT !.step = "lock", !.kind = "ply"]}
         ELSE LET plied == [t EXCEPT !.ply_id = @ + 1]
                  scored == [plied EXCEPT !.round_id = @ + 1]
              IN  {[scored EXCEPT !.step = "done"]}
                  \cup (IF plied.ply_id < MaxPly
                        THEN {[plied EXCEPT !.step = "lock"]}
                        ELSE {})
                  \cup (IF plied.ply_id < MaxPly /\ scored.round_id < MaxRounds
                        THEN {[scored EXCEPT !.step = "lock",
                                             !.kind = "reset-round"]}
                        ELSE {})

\* Vec::push, second half: the game writes its record behind the length it
\* read and the log is one record longer than that; the guard of the lock is
\* dropped at the end of the statement, and the game goes on
LogWrite ==
    /\ \E g \in DOMAIN threads :
           LET t == threads[g]
               item == PlayLogPly(g)
               pushed == [t EXCEPT !.produced = Append(@, item)]
           IN  /\ t.step = "write"
               /\ play_log' = Append(SubSeq(play_log, 1, t.len), item)
               /\ mutex' = Unlocked
               /\ \E after \in AfterPush(pushed) :
                      threads' = [threads EXCEPT ![g] = after]
    /\ UNCHANGED <<state, pc, current_player, ply_id, search, counting, ret>>

NextLog ==
    \/ LogLock
    \/ LogReserve
    \/ LogWrite

SpecLog == InitLog /\ [][NextLog]_vars

----------------------------------------------------------------------------

(* Properties *)

AllDisplaysEmpty(s) ==
    \A d \in Displays(s) : \A c \in Tile : s.factory_displays[d][c] = 0

CenterEmpty(s) == \A c \in Tile : s.center.tiles[c] = 0

AnyPoolHoldsTile(s) == ~(AllDisplaysEmpty(s) /\ CenterEmpty(s))

\* the displays were refilled and no ply was made since
JustRefilled ==
    /\ pc = "ply"
    /\ \A d \in Displays(state) : SumTiles(state.factory_displays[d]) > 0
    /\ CenterEmpty(state)

\* the tiles of a colour that a source holds
TilesIn(s, display, color) ==
    IF display.tag = "Center"
    THEN s.center.tiles[color]
    ELSE s.factory_displays[display.idx][color]

\* C1: is_round_over holds exactly when every draw pool and the shared pool
\* hold no tile; it is false while some draw pool still holds a tile.
C1_RoundOverIffAllEmpty ==
    is_round_over(state) <=> (AllDisplaysEmpty(state) /\ CenterEmpty(state))

\* C2: in every reachable state and for every player, list_valid_actions is
\* not empty when is_round_over is false, and when any pool holds a tile.
C2_ActionsNonEmpty ==
    \A p \in Players(state) :
        (~is_round_over(state) \/ AnyPoolHoldsTile(state))
            => Len(list_valid_actions(state, p)) > 0

\* a ply was made, the round goes on with tiles in the center, and the seat to
\* act has tiles staged and actions to choose from
C2_Witness ==
    /\ pc = "ply"
    /\ ply_id > 0
    /\ ~is_round_over(state)
    /\ ~CenterEmpty(state)
    /\ \E p \in Players(state) : \E i \in Rows :
           state.players[p].pattern_lines[i].count > 0
    /\ Len(list_valid_actions(state, current_player)) > 0

WithinCapacity(s) ==
    \A p \in Players(s) :
        /\ \A i \in Rows : s.players[p].pattern_lines[i].count <= i + 1
        /\ s.players[p].floor_line <= 7

\* C3: after take_action with any action of list_valid_actions, in any
\* reachable state, every pattern line i of every player holds at most i+1
\* tiles and every floor line at most 7.
C3_StagingWithinCapacity ==
    /\ WithinCapacity(state)
    /\ \A p \in Players(state) :
           LET actions == list_valid_actions(state, p)
           IN  \A k \in 1..Len(actions) :
                   WithinCapacity(take_action(state, p, actions[k]))

\* a ply has left a player with a full first line and a floor line of 7
C3_Witness ==
    /\ ply_id > 0
    /\ \E p \in Players(state) :
           /\ state.players[p].floor_line = 7
           /\ state.players[p].pattern_lines[0].count = 1

\* C4: staging `taken` tiles into line i that holds k tiles leaves the line
\* with min(i+1, k+taken) tiles of the taken colour and adds
\* max(0, k+taken-(i+1)) tiles to the floor line (clamped to 7); staging on
\* the floor line adds all the tiles to it and changes no line.  Stated of the
\* actions the seat to act can choose.
C4_StagingAmounts ==
    (pc = "ply" /\ ~is_round_over(state)) =>
        LET p == current_player
            actions == list_valid_actions(state, p)
        IN  \A n \in 1..Len(actions) :
                LET a == actions[n]
                    i == a.pattern_line_choice
                    taken == TilesIn(state, a.action_display_choice, a.color_choice)
                    before == state.players[p]
                    after == take_action(state, p, a).players[p]
                IN  IF i = NoLine
                    THEN /\ after.floor_line = Min(7, before.floor_line + taken)
                         /\ after.pattern_lines = before.pattern_lines
                    ELSE LET k == before.pattern_lines[i].count
                         IN  /\ after.pattern_lines[i] =
                                    [color |-> a.color_choice,
                                     count |-> Min(i + 1, k + taken)]
                             /\ after.floor_line =
                                    Min(7, before.floor_line + Max(0, (k + taken) - (i + 1)))
                             /\ \A j \in Rows \ {i} :
                                    after.pattern_lines[j] = before.pattern_lines[j]

\* C5: refill_tiles adds exactly 4 tiles to every display, takes none away,
\* and leaves the center without tiles and with the starting marker, whatever
\* the center held.
C5_RefillAddsFour ==
    \A draws \in RefillDraws(state) :
        LET after == refill_tiles(state, draws)
        IN  /\ \A d \in Displays(state) :
                   /\ SumTiles(after.factory_displays[d])
                          = SumTiles(state.factory_displays[d]) + 4
                   /\ \A c \in Tile :
                          after.factory_displays[d][c] >= state.factory_displays[d][c]
            /\ CenterEmpty(after)
            /\ after.center.starting_marker = TRUE

\* a round other than the first was just refilled, onto a display that still
\* held tiles
C5_Witness ==
    /\ JustRefilled
    /\ state.rounds >= 1
    /\ state.center.starting_marker
    /\ \E d \in Displays(state) : SumTiles(state.factory_displays[d]) = 8

\* C6: every display holds exactly 4 tiles right after each refill, and no
\* display ever holds more than 4 tiles.
C6_DisplaysHoldAtMostFour ==
    /\ \A d \in Displays(state) : SumTiles(state.factory_displays[d]) <= 4
    /\ JustRefilled =>
           \A d \in Displays(state) : SumTiles(state.factory_displays[d]) = 4

\* C7: tile_wall_and_score, for each line i of the player that holds i+1
\* tiles, tiles the wall cell of the line's colour in row i, which was not
\* tiled, and empties the line; other lines and wall cells stay as they were.
C7_TilingOneCellPerFullLine ==
    \A p \in Players(state) :
        LET before == state.players[p]
            after == tile_wall_and_score(state, p).players[p]
            full(i) == before.pattern_lines[i].count = i + 1
            cell(i) == ColIdx(i, before.pattern_lines[i].color)
        IN  \A i \in Rows :
                /\ full(i) =>
                       /\ before.pattern_lines[i].color \in Tile
                       /\ ~before.wall[i][cell(i)]
                       /\ after.wall[i][cell(i)]
                       /\ after.pattern_lines[i] = [color |-> None, count |-> 0]
                /\ ~full(i) => after.pattern_lines[i] = before.pattern_lines[i]
                /\ \A j \in Rows :
                       ~(full(i) /\ j = cell(i)) => after.wall[i][j] = before.wall[i][j]

\* a scoring has tiled a wall cell, and the player has a full line again
C7_Witness ==
    \E p \in Players(state) :
        /\ \E i \in Rows : \E j \in Rows : state.players[p].wall[i][j]
        /\ \E i \in Rows : state.players[p].pattern_lines[i].count = i + 1

\* C8: every player's score is at least 0 after each tile_wall_and_score.
C8_ScoreNeverNegative ==
    \A p \in Players(state) :
        /\ state.players[p].score >= 0
        /\ tile_wall_and_score(state, p).players[p].score >= 0

\* a round was scored in which a player tiled a cell and scored nothing: the
\* floor penalty was at least the tiling points
C8_Witness ==
    /\ state.rounds >= 1
    /\ \E p \in Players(state) :
           /\ state.players[p].score = 0
           /\ \E i \in Rows : \E j \in Rows : state.players[p].wall[i][j]

\* C9: winner returns a seat with the maximal score, the lowest one when
\* several seats share it.
C9_WinnerIsLowestMaximalSeat ==
    pc = "done" =>
        /\ ret \in Players(state)
        /\ \A q \in Players(state) :
               state.players[q].score <= state.players[ret].score
        /\ \A q \in Players(state) :
               q < ret => state.players[q].score < state.players[ret].score

\* the tiled cells next to (r, c) in row r, without a gap
RunInRow(wall, r, c) ==
    Cardinality({j \in Rows : j < c /\ \A m \in j..(c - 1) : wall[r][m]})
        + Cardinality({j \in Rows : j > c /\ \A m \in (c + 1)..j : wall[r][m]})

\* the tiled cells next to (r, c) in column c, without a gap
RunInCol(wall, r, c) ==
    Cardinality({i \in Rows : i < r /\ \A m \in i..(r - 1) : wall[m][c]})
        + Cardinality({i \in Rows : i > r /\ \A m \in (r + 1)..i : wall[m][c]})

\* C10: the adjacency score of a placement at (r, c) is max(1, H + V), H the
\* tiled cells next to it in its row and V those next to it in its column.
C10_BaseScoreIsRowPlusColumn ==
    \A p \in Players(state) : \A r \in Rows : \A color \in Tile :
        LET wall == state.players[p].wall
            c == ColIdx(r, color)
        IN  ~wall[r][c] =>
                placement_base(wall, r, color)
                    = Max(1, RunInRow(wall, r, c) + RunInCol(wall, r, c))

\* the pattern lines of a player that are full
FullLines(player) == {i \in Rows : player.pattern_lines[i].count = i + 1}

\* the wall with the cell (r, c) tiled
Placed(wall, r, c) == [wall EXCEPT ![r][c] = TRUE]

ColumnTiled(wall, c) == \A i \in Rows : wall[i][c]

RowTiled(wall, r) == \A j \in Rows : wall[r][j]

ColorTiled(wall, color) == \A i \in Rows : wall[i][ColIdx(i, color)]

\* C11: score_placement adds the +7 bonus exactly when the five cells of the
\* tile's column are tiled once the tile is placed.
C11_ColumnBonusIffColumnTiled ==
    \A p \in Players(state) : \A r \in FullLines(state.players[p]) :
        LET wall == state.players[p].wall
            color == state.players[p].pattern_lines[r].color
            c == ColIdx(r, color)
        IN  col_completed(wall, r, color) <=> ColumnTiled(Placed(wall, r, c), c)

\* C12: score_placement adds the +2 bonus exactly when the five cells of the
\* tile's row are tiled once the tile is placed.
C12_RowBonusIffRowTiled ==
    \A p \in Players(state) : \A r \in FullLines(state.players[p]) :
        LET wall == state.players[p].wall
            color == state.players[p].pattern_lines[r].color
            c == ColIdx(r, color)
        IN  row_completed(wall, r, color) <=> RowTiled(Placed(wall, r, c), r)

\* the seat was scored for a tile that completed a row of its wall
C12_Witness ==
    /\ pc = "scored"
    /\ \E r \in Rows : RowTiled(state.players[Scorer].wall, r)
    /\ state.players[Scorer].score >= 2

\* C13: score_placement adds the +10 bonus exactly when the five cells of the
\* placed colour, one in each row, are tiled once the tile is placed.
C13_ColorBonusIffColorTiled ==
    \A p \in Players(state) : \A r \in FullLines(state.players[p]) :
        LET wall == state.players[p].wall
            color == state.players[p].pattern_lines[r].color
            c == ColIdx(r, color)
        IN  (color_coverage(wall, r, color) = 5)
                <=> ColorTiled(Placed(wall, r, c), color)

\* the seat was scored for a tile that completed a colour of its wall
C13_Witness ==
    /\ pc = "scored"
    /\ \E color \in Tile : ColorTiled(state.players[Scorer].wall, color)
    /\ state.players[Scorer].score >= 10

\* the cell (r, c) has a tiled cell next to it in its row or in its column
HasTiledNeighbour(wall, r, c) ==
    \E ij \in Rows \X Rows :
        /\ wall[ij[1]][ij[2]]
        /\ \/ ij[1] = r /\ (ij[2] = c - 1 \/ ij[2] = c + 1)
           \/ ij[2] = c /\ (ij[1] = r - 1 \/ ij[1] = r + 1)

\* C14: a player whose only full line places a tile on a cell without a tiled
\* neighbour, completing no row, column or colour, and whose floor line is
\* empty, gets exactly 1 point from tile_wall_and_score, and the cell is tiled.
C14_LoneTileScoresOne ==
    \A p \in Players(state) : \A r \in FullLines(state.players[p]) :
        LET before == state.players[p]
            after == tile_wall_and_score(state, p).players[p]
            color == before.pattern_lines[r].color
            c == ColIdx(r, color)
            placed == Placed(before.wall, r, c)
        IN  (/\ FullLines(before) = {r}
             /\ ~HasTiledNeighbour(before.wall, r, c)
             /\ ~RowTiled(placed, r)
             /\ ~ColumnTiled(placed, c)
             /\ ~ColorTiled(placed, color)
             /\ before.floor_line = 0)
                => /\ after.score = before.score + 1
                   /\ after.wall[r][c]

\* C15: taking a colour from display i leaves display i without tiles, adds
\* to the center, for every other colour, the tiles display i held of it,
\* leaves the center's tiles of the taken colour and the other displays as
\* they were, and takes as many tiles as display i held of the colour.
C15_TakeFromDisplay ==
    \A i \in Displays(state) : \A color \in Tile :
        LET display == state.factory_displays[i]
            taken == take_out_tiles(state, FactoryDisplay(i), color)
            after == taken.state
        IN  /\ \A d \in Tile : after.factory_displays[i][d] = 0
            /\ \A d \in Tile \ {color} :
                   after.center.tiles[d] = state.center.tiles[d] + display[d]
            /\ after.center.tiles[color] = state.center.tiles[color]
            /\ \A j \in Displays(state) \ {i} :
                   after.factory_displays[j] = state.factory_displays[j]
            /\ taken.count = display[color]

\* a ply took Black from a display of two Black and two Blue tiles: the
\* display is empty and the center holds the two Blue tiles, while another
\* display still holds such a hand
C15_Witness ==
    /\ pc = "ply"
    /\ ply_id = 1
    /\ \E i \in Displays(state) : SumTiles(state.factory_displays[i]) = 0
    /\ state.center.tiles["Blue"] = 2
    /\ state.center.tiles["Black"] = 0
    /\ \E j \in Displays(state) :
           /\ state.factory_displays[j]["Black"] = 2
           /\ state.factory_displays[j]["Blue"] = 2

\* the starting markers of the seats
Markers(s) == [p \in Players(s) |-> s.players[p].starting_marker]

\* C16: in a round, the first take_action from the center gives the acting
\* player the starting marker and takes it from the center; from then on the
\* center is without the marker until the next refill, and no later pick of
\* the round gives a player the marker.
C16_MarkerClaimedOncePerRound ==
    /\ [](\A p \in Players(state) :
            LET actions == list_valid_actions(state, p)
            IN  \A k \in 1..Len(actions) :
                    LET a == actions[k]
                        after == take_action(state, p, a)
                    IN  IF a.action_display_choice.tag = "Center"
                           /\ state.center.starting_marker
                        THEN /\ ~after.center.starting_marker
                             /\ Markers(after) = [Markers(state) EXCEPT ![p] = TRUE]
                        ELSE /\ after.center.starting_marker
                                    = state.center.starting_marker
                             /\ Markers(after) = Markers(state))
    /\ [][(pc = "ply" /\ ~state.center.starting_marker)
            => /\ ~state'.center.starting_marker
               /\ Markers(state') = Markers(state)]_vars

\* the second ply of a round took from the center and its starting marker;
\* tiles are left in the center for later picks
C16_Witness ==
    /\ pc = "ply"
    /\ ply_id = 2
    /\ ~state.center.starting_marker
    /\ state.players[1].starting_marker
    /\ ~CenterEmpty(state)

\* the sources a player takes tiles from
Sources(s) == {FactoryDisplay(i) : i \in Displays(s)} \cup {Center}

\* the pattern line i of the player can take the colour: it is empty and the
\* wall's cell of the colour in row i is not tiled, or it holds the colour
\* and is not full
LineTakes(player, i, color) ==
    \/ /\ player.pattern_lines[i].count = 0
       /\ ~player.wall[i][ColIdx(i, color)]
    \/ /\ player.pattern_lines[i].color = color
       /\ player.pattern_lines[i].count > 0
       /\ player.pattern_lines[i].count < i + 1

\* C17: for every player, source and colour the source holds, the lines that
\* list_valid_actions offers are the pattern lines that can take the colour,
\* and the floor line.
C17_OfferedLines ==
    \A p \in Players(state) :
        LET actions == list_valid_actions(state, p)
        IN  \A source \in Sources(state) : \A color \in Tile :
                TilesIn(state, source, color) > 0 =>
                    {actions[k].pattern_line_choice :
                        k \in {n \in 1..Len(actions) :
                                  /\ actions[n].action_display_choice = source
                                  /\ actions[n].color_choice = color}}
                        = {i \in Rows : LineTakes(state.players[p], i, color)}
                              \cup {NoLine}

\* a colour is on offer to a player who has tiled its cell in the row of an
\* empty line and holds it in a line with room
C17_Witness ==
    /\ pc = "ply"
    /\ \E p \in Players(state) : \E color \in Tile :
           /\ \E source \in Sources(state) : TilesIn(state, source, color) > 0
           /\ \E i \in Rows :
                  /\ state.players[p].pattern_lines[i].count = 0
                  /\ state.players[p].wall[i][ColIdx(i, color)]
           /\ \E i \in Rows :
                  /\ state.players[p].pattern_lines[i].color = color
                  /\ state.players[p].pattern_lines[i].count < i + 1

\* the sums of the first 0, 1, ..., 7 entries of 1, 1, 2, 2, 2, 3, 3
PenaltySums == <<0, 1, 2, 4, 6, 8, 11, 14>>

\* C18: tile_wall_and_score leaves the player with the score
\* max(0, score + tiling points - P), P being the sum of the first f entries
\* of 1, 1, 2, 2, 2, 3, 3 for a floor line of f <= 7 tiles, and with an empty
\* floor line.
C18_ScoreAfterPenalty ==
    \A p \in Players(state) :
        LET before == state.players[p]
            after == tile_wall_and_score(state, p).players[p]
            f == before.floor_line
            tiling_points == tile_lines(before, 0, 0).tiling_points
        IN  /\ f <= 7
            /\ after.score = Max(0, (before.score + tiling_points) - PenaltySums[f + 1])
            /\ after.floor_line = 0

\* a round is over and about to be scored: a player with points from an
\* earlier round has a full line and tiles on the floor line
C18_Witness ==
    /\ pc = "ply"
    /\ is_round_over(state)
    /\ state.rounds >= 1
    /\ \E p \in Players(state) :
           /\ state.players[p].score > 0
           /\ state.players[p].floor_line >= 3
           /\ FullLines(state.players[p]) # {}

\* C19: is_game_over holds exactly when is_round_over holds and the wall of
\* some player has a row whose five cells are tiled.
C19_GameOverIffRoundOverAndFullRow ==
    is_game_over(state) <=>
        /\ is_round_over(state)
        /\ \E p \in Players(state) : \E r \in Rows :
               RowTiled(state.players[p].wall, r)

\* the scoring of a round completed a row of a wall: the game has ended
C19_Witness ==
    /\ pc = "game_end"
    /\ state.rounds = 5
    /\ is_game_over(state)
    /\ \E p \in Players(state) : RowTiled(state.players[p].wall, 0)

\* s is a game of n players in which nothing has happened
FreshGame(s, n) ==
    /\ Cardinality(DOMAIN s.factory_displays) = (2 * n) + 1
    /\ \A d \in DOMAIN s.factory_displays : \A c \in Tile :
           s.factory_displays[d][c] = 0
    /\ \A c \in Tile : s.center.tiles[c] = 0
    /\ s.center.starting_marker = TRUE
    /\ Cardinality(DOMAIN s.players) = n
    /\ \A p \in DOMAIN s.players :
           /\ s.players[p].score = 0
           /\ \A i \in Rows : \A j \in Rows : s.players[p].wall[i][j] = FALSE
           /\ \A i \in Rows :
                  /\ s.players[p].pattern_lines[i].color = None
                  /\ s.players[p].pattern_lines[i].count = 0
           /\ s.players[p].floor_line = 0
           /\ s.players[p].starting_marker = FALSE
    /\ s.rounds = 0

\* C20: State::new(n) has 2n+1 displays without tiles, a center without tiles
\* that holds the starting marker, n players with score 0, an untiled wall,
\* empty pattern lines, an empty floor line and no marker, and round counter
\* 0.  Stated of the game simulate starts with and of every number of seats.
C20_NewStateIsFresh ==
    /\ pc = "validate" => FreshGame(state, n_players)
    /\ \A n \in 1..MaxSeats : FreshGame(State_new(n), n)

\* simulate has built the state of a game of two players
C20_Witness ==
    /\ pc = "validate"
    /\ state = State_new(n_players)
    /\ Displays(state) = 0..4
    /\ Players(state) = 0..1

\* C21: validate gives an error exactly when the players are fewer than 2 or
\* more than 4, and Ok for 2, 3 and 4 players; it leaves the state as it was
\* and the caller goes on (or returns) without a panic; State::new builds a
\* game for every number of players.
C21_ValidateRejectsBadCounts ==
    /\ [](LET n == Cardinality(Players(state))
          IN  /\ validate(state) = "Err" <=> (n < 2 \/ n > 4)
              /\ validate(state) = "Ok" <=> n \in {2, 3, 4}
              /\ pc # "panic")
    /\ [](\A n \in 0..(MaxSeats + 2) : FreshGame(State_new(n), n))
    /\ [][pc = "validate" =>
            /\ state' = state
            /\ pc' = IF Cardinality(Players(state)) \in {2, 3, 4}
                     THEN "round"
                     ELSE "done"]_vars

\* a game of five players, its displays refilled, was rejected
C21_Witness ==
    /\ pc = "done"
    /\ Cardinality(Players(state)) = 5
    /\ \A d \in Displays(state) : SumTiles(state.factory_displays[d]) = 4

\* C30: taking a colour from the center leaves the center without tiles of
\* the colour, takes as many tiles as it held of the colour, and leaves the
\* center's tiles of the other colours and every display as they were.
C30_TakeFromCenter ==
    \A color \in Tile :
        LET taken == take_out_tiles(state, Center, color)
            after == taken.state
        IN  /\ after.center.tiles[color] = 0
            /\ taken.count = state.center.tiles[color]
            /\ \A d \in Tile \ {color} :
                   after.center.tiles[d] = state.center.tiles[d]
            /\ after.factory_displays = state.factory_displays

\* the second ply of a round took a colour from a center of two colours: the
\* other colour is left in the center
C30_Witness ==
    /\ pc = "ply"
    /\ ply_id = 2
    /\ ~state.center.starting_marker
    /\ \E c \in Tile : \E d \in Tile \ {c} :
           /\ state.center.tiles[c] = 0
           /\ state.center.tiles[d] > 0
           /\ \E p \in Players(state) : \E i \in Rows :
                  state.players[p].pattern_lines[i].color = c
    /\ Cardinality({i \in Displays(state) :
                       SumTiles(state.factory_displays[i]) = 0}) = 1

\* C28: in every state reached by refills, legal plies and scorings, a
\* pattern line without a colour holds no tile, a line that holds tiles has a
\* colour, and the cell of that colour in the line's row of the wall is not
\* tiled.
C28_LinesAgreeWithWall ==
    \A p \in Players(state) : \A i \in Rows :
        LET line == state.players[p].pattern_lines[i]
        IN  /\ line.color = None => line.count = 0
            /\ line.count # 0 => line.color \in Tile
            /\ line.count # 0 => ~state.players[p].wall[i][ColIdx(i, line.color)]

\* after a scoring that tiled a cell of a colour, a player holds tiles of
\* that colour in another line
C28_Witness ==
    /\ state.rounds >= 1
    /\ \E p \in Players(state) : \E i \in Rows : \E j \in Rows \ {i} :
           LET line == state.players[p].pattern_lines[j]
           IN  /\ line.count > 0
               /\ state.players[p].wall[i][ColIdx(i, line.color)]

\* the actions that name a source, a colour and a line or the floor line
ShapedActions(s) ==
    {Action(source, color, line) :
        source \in Sources(s), color \in Tile, line \in Rows \cup {NoLine}}

\* C27: take_action with an action that list_valid_actions does not offer to
\* the player in the state (a colour the source does not hold, a line that is
\* full, holds another colour, or whose wall cell is tiled) aborts.
C27_InvalidActionIsFatal ==
    \A p \in Players(state) :
        LET actions == list_valid_actions(state, p)
            valid == {actions[k] : k \in 1..Len(actions)}
        IN  \A a \in ShapedActions(state) \ valid :
                take_action_panics(state, p, a)

\* the seat that begins a round: the first holder of the starting marker, or
\* seat 0
StartingSeat(s) ==
    IF \A p \in Players(s) : ~s.players[p].starting_marker
    THEN 0
    ELSE CHOOSE p \in Players(s) :
            /\ s.players[p].starting_marker
            /\ \A q \in Players(s) : q < p => ~s.players[q].starting_marker

\* C29: a round of the game loop begins with the holder of the starting
\* marker (seat 0 if there is none), whose marker is cleared, and with the
\* refill of the displays; then the seats take one legal action each, in
\* round-robin order, while is_round_over is false; when it is true every
\* seat is scored once with tile_wall_and_score, and only then is_game_over
\* is tested; no ply follows once it is true.
C29_RoundLifecycle ==
    [][/\ (pc = "round" /\ pc' # "round") =>
              /\ pc' = "ply"
              /\ current_player' = StartingSeat(state)
              /\ ~state'.players[current_player'].starting_marker
              /\ \A d \in Displays(state) :
                     SumTiles(state'.factory_displays[d])
                         = SumTiles(state.factory_displays[d]) + 4
              /\ state'.center = CenterState_new
       /\ (pc = "ply" /\ pc' = "ply") =>
              /\ ~is_round_over(state)
              /\ LET actions == list_valid_actions(state, current_player)
                 IN  \E k \in 1..Len(actions) :
                         state' = take_action(state, current_player, actions[k])
              /\ current_player'
                     = (current_player + 1) % Cardinality(Players(state))
       /\ (pc = "ply" /\ pc' \notin {"ply", "panic"}) =>
              /\ is_round_over(state)
              /\ \A p \in Players(state) :
                     state'.players[p] = tile_wall_and_score(state, p).players[p]
              /\ state'.factory_displays = state.factory_displays
              /\ state'.center = state.center
              /\ pc' = IF is_game_over(state') THEN "game_end" ELSE "round"
       /\ pc \in {"game_end", "done"} => state' = state]_vars

\* the second seat took the starting marker in the first round and begins the
\* second round, its marker cleared and the displays refilled
C29_Witness ==
    /\ JustRefilled
    /\ state.rounds = 1
    /\ ply_id = 2
    /\ current_player = 1
    /\ \A p \in Players(state) : ~state.players[p].starting_marker

\* C22: play_greedy applies a legal action whose calculate_reward is maximal,
\* the first such action in the order of list_valid_actions.
C22_GreedyTakesFirstMaximal ==
    pc = "strategy" =>
        LET actions == list_valid_actions(state, current_player)
            found == action_rewards(state, current_player, actions)
            choice == greedy_choice(state, current_player)
        IN  Len(actions) > 0 =>
                /\ choice \in 1..Len(actions)
                /\ \A k \in 1..Len(actions) : found[k] <= found[choice]
                /\ \A k \in 1..(choice - 1) : found[k] < found[choice]

\* C23: rewards_dist gives a list of weights as long as the list of rewards:
\* weight i is max(reward i, 0) when some reward is positive, and every
\* weight is 1 when none is; the weights of a list that is not empty are
\* never all 0.
C23_WeightsFromRewards ==
    pc = "dist_done" =>
        /\ Len(rewards_d) = Len(rewards)
        /\ IF \E i \in 1..Len(rewards) : rewards[i] > 0
           THEN \A i \in 1..Len(rewards) :
                    rewards_d[i] = IF rewards[i] > 0 THEN rewards[i] ELSE 0
           ELSE \A i \in 1..Len(rewards) : rewards_d[i] = 1
        /\ Len(rewards) > 0 => \E i \in 1..Len(rewards_d) : rewards_d[i] # 0

\* three rewards, none positive, got the weights 1, 1, 1
C23_Witness ==
    /\ pc = "dist_done"
    /\ rewards = <<0 - 1, 0, 0 - 2>>
    /\ rewards_d = <<1, 1, 1>>

\* the trials recorded for the actions from position i on
RECURSIVE TrialsFrom(_, _)
TrialsFrom(log, i) ==
    IF i > Len(log) THEN 0 ELSE log[i].n_games + TrialsFrom(log, i + 1)

\* C24: every simulated game of play_mcts adds one to the trials of exactly
\* one action and one score to that action's list, so the trials sum to the
\* number of games; when there is one legal action, it is the action applied,
\* and all the games are its trials.
C24_TrialsSumToBudget ==
    /\ [](pc = "mcts" =>
            /\ Len(action_log) = Len(list_valid_actions(state, current_player))
            /\ TrialsFrom(action_log, 1) = games_done
            /\ \A k \in 1..Len(action_log) :
                   Len(action_log[k].scores) = action_log[k].n_games)
    /\ [][(pc = "mcts" /\ pc' = "mcts") =>
            \E k \in 1..Len(action_log) :
                /\ action_log'[k].n_games = action_log[k].n_games + 1
                /\ Len(action_log'[k].scores) = Len(action_log[k].scores) + 1
                /\ SubSeq(action_log'[k].scores, 1, Len(action_log[k].scores))
                       = action_log[k].scores
                /\ \A j \in 1..Len(action_log) \ {k} :
                       action_log'[j] = action_log[j]]_vars
    /\ [][(pc = "mcts" /\ pc' = "played") =>
            LET actions == list_valid_actions(state, current_player)
            IN  /\ TrialsFrom(action_log, 1) = n_games
                /\ Len(actions) = 1 =>
                       /\ state' = take_action(state, current_player, actions[1])
                       /\ action_log[1].n_games = n_games]_vars

\* play_mcts has applied the only legal action after all its games
C24_Witness ==
    /\ pc = "played"
    /\ Len(action_log) = 1
    /\ action_log[1].n_games = n_games
    /\ Len(action_log[1].scores) = n_games
    /\ state.players[Caller].floor_line > 0

\* C25: play_mcts applies, of the actions with at least one trial, the one
\* whose highest recorded final score is maximal, the first such action in
\* the order of the actions; an action without a trial is never applied.
C25_BestIsFirstMaximal ==
    (pc = "mcts" /\ games_done = n_games /\ Len(action_log) > 0) =>
        LET tried == {k \in 1..Len(action_log) : action_log[k].n_games > 0}
            best == best_action_idx(action_log)
            top(k) == max_score(action_log[k].scores)
        IN  /\ best \in tried
            /\ \A k \in tried : top(k) <= top(best)
            /\ \A k \in tried : k < best => top(k) < top(best)

\* C26: play_random, play_greedy and play_mcts, called in a state where
\* list_valid_actions is empty, panic, and leave the state as it was.
C26_NoActionIsFatal ==
    [][(/\ pc \in {"strategy", "mcts"}
        /\ Len(list_valid_actions(state, current_player)) = 0) =>
            /\ state' = state
            /\ pc' \in {"panic", "mcts"}
            /\ pc = "mcts" => pc' = "panic"]_vars

\* a strategy has panicked where the seat had no action to choose, the state
\* being as it was when the strategy was called
C26_Witness ==
    /\ pc = "panic"
    /\ Len(list_valid_actions(state, current_player)) = 0
    /\ CenterEmpty(state)
    /\ state.players[Caller].floor_line = 0

\* the cells of the unbroken run of tiled cells that ends just left of k
RunLeftOf(cells, k) ==
    {m \in Rows : m < k /\ \A n \in m..(k - 1) : cells[n]}

\* the cells of the unbroken run of tiled cells that starts just right of k
RunRightOf(cells, k) ==
    {m \in Rows : m > k /\ \A n \in (k + 1)..m : cells[n]}

\* C40: count_continuous returns the length of the unbroken run of true cells
\* just left of the anchor plus that of the run just right of it, the anchor
\* cell not counted: [F,T,T,F,F] at 0 gives 2, [F,T,F,F,F] at 2 gives 1 and
\* [T,T,T,F,F] at 3 gives 3.
C40_CountsBothRuns ==
    pc = "counted" =>
        /\ ret = Cardinality(RunLeftOf(arg_array, arg_anchor))
                     + Cardinality(RunRightOf(arg_array, arg_anchor))
        /\ (arg_array = [i \in Rows |-> i \in {1, 2}] /\ arg_anchor = 0)
               => ret = 2
        /\ (arg_array = [i \in Rows |-> i \in {1}] /\ arg_anchor = 2)
               => ret = 1
        /\ (arg_array = [i \in Rows |-> i \in {0, 1, 2}] /\ arg_anchor = 3)
               => ret = 3

\* a tiled anchor with a run of two on its left and a run of one on its right
C40_Witness ==
    /\ pc = "counted"
    /\ arg_array = [i \in Rows |-> i # 0]
    /\ arg_anchor = 3
    /\ ret = 3

\* C31: the reward of an action is the seat's score after the action and the
\* scoring of the seat, minus the seat's score after the scoring alone; the
\* state the rewards are computed from is left as it was.
C31_RewardIsScoreGain ==
    /\ [](pc = "mcts" =>
            LET actions == list_valid_actions(state, current_player)
                scored == tile_wall_and_score(state, current_player)
                played(k) ==
                    tile_wall_and_score(
                        take_action(state, current_player, actions[k]),
                        current_player)
            IN  /\ Len(rewards) = Len(actions)
                /\ \A k \in 1..Len(actions) :
                       rewards[k] = played(k).players[current_player].score
                                      - scored.players[current_player].score)
    /\ [][(pc = "strategy" /\ pc' = "mcts") => state' = state]_vars

\* the rewards of a seat with points to lose: an action that gains and one
\* that loses
C31_Witness ==
    /\ pc = "mcts"
    /\ state.players[Caller].score = MaxScore
    /\ \E k \in 1..Len(rewards) : rewards[k] > 0
    /\ \E k \in 1..Len(rewards) : rewards[k] < 0

\* C32: tile_wall_and_score takes the full pattern lines in the order of the
\* rows 0..4, scores each placement on the wall that holds the tiles placed
\* for the rows above it in the same call, and subtracts the floor penalty
\* from the sum once all the lines are tiled.
C32_RowsInOrderThenPenalty ==
    [][(pc = "score" /\ pc' = "scored") =>
        LET p == state.players[Scorer]
            full == {i \in Rows : p.pattern_lines[i].count = i + 1}
            wall_at(i) ==
                [r \in Rows |-> [c \in Rows |->
                    \/ p.wall[r][c]
                    \/ /\ r \in full
                       /\ r < i
                       /\ c = ColIdx(r, p.pattern_lines[r].color)]]
            points(i) ==
                IF i \in full
                THEN score_placement(wall_at(i), i, p.pattern_lines[i].color)
                ELSE 0
            total == points(0) + points(1) + points(2) + points(3) + points(4)
        IN  /\ state'.players[Scorer].wall = wall_at(5)
            /\ state'.players[Scorer].score =
                   Max(p.score + total - floor_penalty(p.floor_line), 0)
            /\ \A i \in full :
                   state'.players[Scorer].pattern_lines[i].count = 0]_vars

\* the second of two lines of one colour has completed the colour on the
\* wall: the seat got the ten points of the colour
C32_Witness ==
    /\ pc = "scored"
    /\ state.players[Scorer].score >= 10
    /\ \E color \in DrawColors :
           /\ \A i \in Rows : state.players[Scorer].wall[i][ColIdx(i, color)]
           /\ \A i \in Rows : \A j \in Rows :
                  state.players[Scorer].wall[i][j] => WallColor(i, j) = color

\* the actions list_valid_actions offers a seat
Offered(s, p) ==
    LET actions == list_valid_actions(s, p)
    IN  {actions[k] : k \in 1..Len(actions)}

\* a round of a simulated game is closed: it is counted and both seats are
\* scored
RoundClosed(s) ==
    tile_wall_and_score(
        tile_wall_and_score([s EXCEPT !.rounds = @ + 1], 0), 1)

\* C33: a simulated game of play_mcts is recorded only in a state where
\* is_game_over holds; until then, a round that is over is counted, scored
\* for every seat and refilled, and then the next seat in round-robin order
\* takes one of its legal actions.
C33_RolloutRunsToGameOver ==
    /\ [][(pc = "rollout" /\ pc' = "recorded") =>
            /\ is_game_over(state)
            /\ state' = state]_vars
    /\ [][(pc = "rollout" /\ pc' = "rollout") =>
            /\ ~is_game_over(state)
            /\ current_player' = (current_player + 1) % n_players
            /\ IF is_round_over(state)
               THEN \E draws \in RefillDraws(state) :
                        LET refilled == refill_tiles(RoundClosed(state), draws)
                        IN  \E a \in Offered(refilled, current_player') :
                                state' = take_action(refilled,
                                                     current_player', a)
               ELSE \E a \in Offered(state, current_player') :
                        state' = take_action(state, current_player', a)]_vars

\* a simulated game was recorded after a round was closed and refilled in it
\* and the next seat has emptied a display
C33_Witness ==
    /\ pc = "recorded"
    /\ state.rounds = 5
    /\ ply_id = 2
    /\ current_player = 1
    /\ is_game_over(state)
    /\ action_log[action_idx].n_games = 1

\* C35: the state from which a simulated game of play_mcts is recorded holds
\* no full pattern line: the last round played has been scored.
C35_RecordedAfterScoring ==
    pc = "recorded" =>
        \A p \in Players(state) : FullLines(state.players[p]) = {}

\* C36: at most one of the center and the boards of the seats holds the
\* starting marker.
C36_OneMarkerHolder ==
    Cardinality({p \in Players(state) : state.players[p].starting_marker})
        + (IF state.center.starting_marker THEN 1 ELSE 0) <= 1

\* C38: the game loop and the simulated games of play_mcts never ask a seat
\* to choose where list_valid_actions is empty: a seat chooses while the
\* round is not over, or right after a refill.
C38_ChoiceNeverEmpty ==
    /\ pc # "panic"
    /\ (pc = "ply" /\ ~is_round_over(state)) =>
           Offered(state, current_player) # {}
    /\ (pc = "rollout" /\ ~is_game_over(state)) =>
           LET next_seat == (current_player + 1) % n_players
           IN  IF is_round_over(state)
               THEN \A draws \in RefillDraws(state) :
                        Offered(refill_tiles(RoundClosed(state), draws),
                                next_seat) # {}
               ELSE Offered(state, next_seat) # {}

\* a seat of a simulated game has chosen right after the refill of a round
C38_Witness ==
    /\ pc = "rollout"
    /\ state.rounds = 5
    /\ ply_id = 2
    /\ \E d \in Displays(state) : SumTiles(state.factory_displays[d]) = 4

\* the tiles in the displays and in the center
PoolTiles(s) ==
    LET RECURSIVE InDisplays(_)
        InDisplays(d) ==
            IF d \notin Displays(s)
            THEN 0
            ELSE SumTiles(s.factory_displays[d]) + InDisplays(d + 1)
    IN  InDisplays(0) + SumTiles(s.center.tiles)

\* C37: every ply takes at least one tile out of the displays and the center
\* together, and a state without a tile there is a state where the round is
\* over: a round with k tiles left is over within k plies.
C37_PoolsShrinkUntilRoundOver ==
    /\ [][(pc = "ply" /\ ply_id' = ply_id + 1) =>
            PoolTiles(state') <= PoolTiles(state) - 1]_vars
    /\ [](PoolTiles(state) = 0 => is_round_over(state))
    /\ ((pc = "ply" /\ PoolTiles(state) <= MaxPly - ply_id)
            ~> is_round_over(state))

\* two plies have emptied the first display and the center: the round is over
C37_Witness ==
    /\ pc = "ply"
    /\ ply_id = 2
    /\ PoolTiles(state) = 0
    /\ is_round_over(state)
    /\ state.players[0].floor_line + state.players[1].floor_line >= 5

\* the wall cells of every seat that are tiled in s are tiled in t
WallsKept(s, t) ==
    \A p \in Players(s) : \A i \in Rows : \A j \in Rows :
        s.players[p].wall[i][j] => t.players[p].wall[i][j]

\* the walls and the scores of the seats are the same in s and t
WallsAndScoresSame(s, t) ==
    \A p \in Players(s) :
        /\ t.players[p].wall = s.players[p].wall
        /\ t.players[p].score = s.players[p].score

\* C39: a tiled wall cell stays tiled under take_action, tile_wall_and_score
\* and refill_tiles; take_action changes no wall, no score and no board but
\* the acting seat's, refill_tiles changes no board, and tile_wall_and_score
\* for a seat changes the wall and the score of that seat only.
C39_WallsAndScoresFrame ==
    /\ [][WallsKept(state, state')]_vars
    /\ [][(pc = "ply" /\ ply_id' = ply_id + 1) =>
            /\ WallsAndScoresSame(state, state')
            /\ \A p \in Players(state) \ {current_player} :
                   state'.players[p] = state.players[p]]_vars
    /\ [][(pc = "round" /\ pc' = "ply") =>
            \A p \in Players(state) :
                /\ state'.players[p].wall = state.players[p].wall
                /\ state'.players[p].score = state.players[p].score
                /\ state'.players[p].pattern_lines
                       = state.players[p].pattern_lines
                /\ state'.players[p].floor_line = state.players[p].floor_line]_vars
    /\ [](\A p \in Players(state) :
            LET scored == tile_wall_and_score(state, p)
            IN  /\ WallsKept(state, scored)
                /\ \A q \in Players(state) \ {p} :
                       scored.players[q] = state.players[q]
                /\ scored.factory_displays = state.factory_displays
                /\ scored.center = state.center)

\* a round of a late game was scored: a seat has a tile more on its wall and
\* another score, the other seat has its wall and score as before the plies
C39_Witness ==
    /\ pc = "game_end"
    /\ \E p \in Players(state) :
           /\ RowTiled(state.players[p].wall, 0)
           /\ state.players[p].score # MaxScore
    /\ \E q \in Players(state) :
           /\ state.players[q].score = 0
           /\ \A i \in Rows : \A j \in Rows : ~state.players[q].wall[i][j]

\* the records of game g in the log, in the order of the log
RecordsOf(log, g) ==
    LET OfGame(item) == item.game_id = g
    IN  SelectSeq(log, OfGame)

\* the records a game produces in their order: "init" first and only first,
\* and the plies with the ply_id 0, 1, 2, ...
InGameOrder(items) ==
    /\ \A i \in 1..Len(items) : (items[i].action = "init") <=> (i = 1)
    /\ Len(items) > 1 => items[2].action = "reset-round"
    /\ \A i \in 1..Len(items) :
           items[i].action = "ply" =>
               items[i].ply_id =
                   Cardinality({j \in 1..(i - 1) : items[j].action = "ply"})

\* C34: the games that run in parallel push their records to the log one at
\* a time: no record is lost or overwritten, the log holds the records of all
\* the games and nothing else, and the records of a game are in the log in
\* the order the game produced them.
C34_LogKeepsEveryRecord ==
    /\ \A g \in DOMAIN threads :
           /\ RecordsOf(play_log, g) = threads[g].produced
           /\ InGameOrder(RecordsOf(play_log, g))
    /\ \A i \in 1..Len(play_log) : play_log[i].game_id \in DOMAIN threads
    /\ Cardinality({g \in DOMAIN threads :
                       threads[g].step \in {"reserve", "write"}}) <= 1
    /\ \A g \in DOMAIN threads :
           threads[g].step \in {"reserve", "write"} => mutex = g

\* both games are over and their records alternate in the log
C34_Witness ==
    /\ pc = "simulate"
    /\ \A g \in DOMAIN threads : threads[g].step = "done"
    /\ Len(play_log) >= 6
    /\ \A i \in 1..6 : play_log[i].game_id = i % 2
    /\ \E i \in 1..Len(play_log) : play_log[i].ply_id = 1

====
